---- MODULE Spec2Model ----
(***************************************************************************)
(* Match scheduler of the tournament planning page (SchedulePage):         *)
(* time grid, pause filter, round-robin pairing, greedy assignment,        *)
(* manual editing and the storage calls around them.                       *)
(*                                                                         *)
(* Times of day "HH:MM" are modelled as tuples <<h, m>>; the storage       *)
(* returns a time column as "HH:MM:SS", modelled as <<h, m, s>>.           *)
(* Team ids are positive integers in creation order; "__BYE__" is BYE.     *)
(* The float weights of the score (2, 1.2, 80, 0.5) are scaled by 10.      *)
(***************************************************************************)
EXTENDS Integers, Sequences, FiniteSets, TLC

(* ------------------------------ bounds -------------------------------- *)
MaxTeams == 4          \* roster size explored by the scheduling runs
MaxRRTeams == 5        \* roster size explored for roundRobinPairs alone
MaxFields == 3         \* field counts explored
MaxTimes == 3          \* number of grid times explored
MaxGestures == 2       \* swap/move gestures explored in manual editing
MaxPoolTeams == 6      \* roster size explored for the pooled pairing sequence alone
LoopTeams == 8         \* largest flat roster whose assignment loop is stepped

(* --------------------------- program constants ------------------------ *)
BYE == 0
DefaultMinTeams == 2
DefaultMaxTeams == 24
MaxGroupCount == 8
LookaheadWindow == 180
InsertChunkSize == 200
UpdateChunkSize == 50
NeverPlayed == -9999
NULL == -1

(* ------------------------------ helpers ------------------------------- *)
Min2(a, b) == IF a <= b THEN a ELSE b
Max2(a, b) == IF a >= b THEN a ELSE b
SetMin(S) == CHOOSE x \in S : \A y \in S : x <= y
SetMax(S) == CHOOSE x \in S : \A y \in S : x >= y
Range(s) == {s[i] : i \in DOMAIN s}
Coalesce(x, d) == IF x = NULL THEN d ELSE x

(* ------------------------- time conversions --------------------------- *)
normHHMM(t) == SubSeq(t, 1, 2)

timeToMin(t) == LET hhmm == normHHMM(t) IN hhmm[1] * 60 + hhmm[2]

minToTime(min) == <<min \div 60, min % 60>>

overlapsInclusive(aStart, aEnd, bStart, bEnd) == aStart <= bEnd /\ bStart <= aEnd

overlaps(aStart, aEnd, bStart, bEnd) == aStart < bEnd /\ bStart < aEnd

clampInt(n, min, max) == Max2(min, Min2(max, n))

(* -------------------------- pairing generator ------------------------- *)
\* one rotation of the circle: keep arr[1], move the last entry behind it
Rotate(arr) ==
  LET rest == Tail(arr)
      n1 == Len(rest)
  IN <<Head(arr)>> \o <<rest[n1]>> \o SubSeq(rest, 1, n1 - 1)

\* the pairings of one round, positions i = 1..half (BYE pairings dropped)
RECURSIVE RoundPairs(_, _, _, _)
RoundPairs(arr, i, half, r) ==
  IF i > half THEN <<>>
  ELSE LET a == arr[i]
           b == arr[Len(arr) + 1 - i]
           here == IF a # BYE /\ b # BYE
                     THEN <<[a |-> a, b |-> b, round |-> r]>> ELSE <<>>
       IN here \o RoundPairs(arr, i + 1, half, r)

RECURSIVE RoundsFrom(_, _, _)
RoundsFrom(arr, r, rounds) ==
  IF r > rounds THEN <<>>
  ELSE RoundPairs(arr, 1, Len(arr) \div 2, r) \o RoundsFrom(Rotate(arr), r + 1, rounds)

roundRobinPairsNoRotate(teamIds) ==
  LET ids == IF Len(teamIds) % 2 = 1 THEN Append(teamIds, BYE) ELSE teamIds
      n == Len(ids)
      one == RoundPairs(ids, 1, n \div 2, 1)
  IN IF n = 0 THEN <<>>
     ELSE [k \in 1..(Len(one) * (n - 1)) |-> one[((k - 1) % Len(one)) + 1]]

roundRobinPairs(teamIds) ==
  LET ids == IF Len(teamIds) % 2 = 1 THEN Append(teamIds, BYE) ELSE teamIds
      n == Len(ids)
  IN RoundsFrom(ids, 1, n - 1)

\* round k of the interleave: one pairing of every queue that still has one
RECURSIVE InterleaveRound(_, _, _)
InterleaveRound(groups, gi, k) ==
  IF gi > Len(groups) THEN <<>>
  ELSE LET g == groups[gi]
           here == IF k <= Len(g.pairs)
                     THEN <<[a |-> g.pairs[k].a, b |-> g.pairs[k].b, groupIdx |-> g.groupIdx]>>
                     ELSE <<>>
       IN here \o InterleaveRound(groups, gi + 1, k)

RECURSIVE InterleaveFrom(_, _)
InterleaveFrom(groups, k) ==
  LET round == InterleaveRound(groups, 1, k)
  IN IF round = <<>> THEN <<>> ELSE round \o InterleaveFrom(groups, k + 1)

\* mutant: the queues emptied one after the other
RECURSIVE interleaveConcatenated(_)
interleaveConcatenated(groups) ==
  IF groups = <<>> THEN <<>>
  ELSE LET g == Head(groups)
       IN [k \in DOMAIN g.pairs |-> [a |-> g.pairs[k].a, b |-> g.pairs[k].b, groupIdx |-> g.groupIdx]]
          \o interleaveConcatenated(Tail(groups))

\* the callers build the list for g = 1..groupCount, so it is already in the
\* order queues.sort gives
interleaveByGroups(groups) == InterleaveFrom(groups, 1)

(* ------------------------------ pause filter -------------------------- *)
slotMinutes(t) == Max2(1, t.match_duration_min + t.rotation_duration_min)

groupCount(t) == clampInt(Coalesce(t.group_count, 1), 1, MaxGroupCount)

showGroups(t) == t.format = "groups_round_robin"

\* Array.prototype.find: the first entry of the type, as a list of at most one
RECURSIVE FindType(_, _)
FindType(pausesArr, type) ==
  IF pausesArr = <<>> THEN <<>>
  ELSE IF Head(pausesArr).type = type THEN <<Head(pausesArr)>>
  ELSE FindType(Tail(pausesArr), type)

pauseModel(t) ==
  LET pTournament == FindType(t.pauses, "tournament")
      pExcept == FindType(t.pauses, "tournament_except")
  IN [globalPauses |-> [i \in 1..Len(pTournament) |->
                          [from |-> pTournament[i].from, to |-> pTournament[i].to]],
      exceptPause |-> pExcept,
      fieldPausesObj |-> t.field_pauses]

SomeOverlap(list, start, end) ==
  \E i \in DOMAIN list : overlaps(start, end, timeToMin(list[i].from), timeToMin(list[i].to))

isPaused(t, fieldIdx, startHHMM) ==
  LET start == timeToMin(startHHMM)
      end == start + slotMinutes(t)
      pm == pauseModel(t)
      fp == IF fieldIdx \in DOMAIN pm.fieldPausesObj THEN pm.fieldPausesObj[fieldIdx] ELSE <<>>
  IN \/ SomeOverlap(pm.globalPauses, start, end)
     \/ /\ pm.exceptPause # <<>>
        /\ overlaps(start, end, timeToMin(pm.exceptPause[1].from), timeToMin(pm.exceptPause[1].to))
        /\ fieldIdx \notin pm.exceptPause[1].exceptFields
     \/ SomeOverlap(fp, start, end)

(* -------------------------------- time grid --------------------------- *)
\* mutant: a slot that ends exactly at end_time is left out
RECURSIVE TimesFromExclusive(_, _, _)
TimesFromExclusive(cur, slot, end) ==
  IF cur + slot < end
    THEN <<minToTime(cur)>> \o TimesFromExclusive(cur + slot, slot, end)
    ELSE <<>>

RECURSIVE TimesFrom(_, _, _)
TimesFrom(cur, slot, end) ==
  IF cur + slot <= end THEN <<minToTime(cur)>> \o TimesFrom(cur + slot, slot, end) ELSE <<>>

timeline(t) == TimesFrom(timeToMin(t.start_time), slotMinutes(t), timeToMin(t.end_time))

\* Map.set in list order: a later index wins
timeIndexMap(t) ==
  LET tl == timeline(t)
  IN [hhmm \in Range(tl) |-> SetMax({i \in DOMAIN tl : tl[i] = hhmm}) - 1]

\* mutant: the grid cells of a time, pauses ignored
OpenFieldsUnfiltered(t, hhmm, f, ti) ==
  [k \in 1..(t.num_fields - f + 1) |-> [start |-> hhmm, fieldIdx |-> f + k - 1, timeIndex |-> ti]]

RECURSIVE OpenFields(_, _, _, _)
OpenFields(t, hhmm, f, ti) ==
  IF f > t.num_fields THEN <<>>
  ELSE (IF ~isPaused(t, f, hhmm)
          THEN <<[start |-> hhmm, fieldIdx |-> f, timeIndex |-> ti]>> ELSE <<>>)
       \o OpenFields(t, hhmm, f + 1, ti)

RECURSIVE SlotsFrom(_, _)
SlotsFrom(t, k) ==
  LET tl == timeline(t)
  IN IF k > Len(tl) THEN <<>>
     ELSE OpenFields(t, tl[k], 1, timeIndexMap(t)[tl[k]]) \o SlotsFrom(t, k + 1)

allSlots(t) == SlotsFrom(t, 1)

\* mutant: the count of the grid cells, pauses ignored
RECURSIVE CountFromUnfiltered(_, _)
CountFromUnfiltered(t, cur) ==
  IF cur + slotMinutes(t) <= timeToMin(t.end_time)
    THEN t.num_fields + CountFromUnfiltered(t, cur + slotMinutes(t))
    ELSE 0

RECURSIVE CountFrom(_, _)
CountFrom(t, cur) ==
  IF cur + slotMinutes(t) <= timeToMin(t.end_time)
    THEN Cardinality({f \in 1..t.num_fields : ~isPaused(t, f, minToTime(cur))})
         + CountFrom(t, cur + slotMinutes(t))
    ELSE 0

totalPlayableSlots(t) == CountFrom(t, timeToMin(t.start_time))

(* ------------------------- pairing sequence of a run ------------------ *)
teamGroup(t, tm) == clampInt(Coalesce(tm.group_idx, 1), 1, groupCount(t))

idsOf(teams) == [i \in DOMAIN teams |-> teams[i].id]

\* the teams of pool g, in roster order
groupTeams(t, teams, g) == SelectSeq(teams, LAMBDA tm : teamGroup(t, tm) = g)

RECURSIVE GroupList(_, _, _)
GroupList(t, teams, g) ==
  IF g > groupCount(t) THEN <<>>
  ELSE LET gTeams == groupTeams(t, teams, g)
       IN (IF Len(gTeams) < 2 THEN <<>>
           ELSE <<[groupIdx |-> g, pairs |-> roundRobinPairs(idsOf(gTeams))]>>)
          \o GroupList(t, teams, g + 1)

buildSequence(t, teams) ==
  IF showGroups(t)
    THEN interleaveByGroups(GroupList(t, teams, 1))
    ELSE LET pairs == roundRobinPairs(idsOf(teams))
         IN [i \in DOMAIN pairs |-> [a |-> pairs[i].a, b |-> pairs[i].b, groupIdx |-> 1]]

(* ------------------------- greedy assignment engine ------------------- *)
Get(m, k, d) == IF k \in DOMAIN m THEN m[k] ELSE d

Put(m, k, v) == [x \in DOMAIN m \cup {k} |-> IF x = k THEN v ELSE m[x]]

\* the run state built before the loop
initRun(t, teams, sequence) ==
  LET ids == Range(idsOf(teams))
      gs == {teamGroup(t, teams[i]) : i \in DOMAIN teams}
  IN [sequence |-> sequence,
      ptr |-> 0,
      scheduled |-> <<>>,
      relaxed |-> <<>>,
      lastTimeIndex |-> [id \in ids |-> NeverPlayed],
      busyAtTime |-> <<>>,
      fieldUsage |-> [f \in 1..t.num_fields |-> 0],
      playedCount |-> [id \in ids |-> 0],
      playedCountByGroup |->
        [g \in gs |-> [id \in {teams[i].id : i \in {j \in DOMAIN teams : teamGroup(t, teams[j]) = g}} |-> 0]]]

\* mutant: the spread of the counts as they are, without the candidate's match
minMaxOfNow(m, a, b) ==
  LET values == Range(m)
  IN [minV |-> IF values # {} THEN SetMin(values) ELSE 0,
      maxV |-> IF values # {} THEN SetMax(values) ELSE 0]

minMaxOf(m, a, b) ==
  LET values == Range(m)
      minV == IF values # {} THEN SetMin(values) ELSE 0
      maxV == IF values # {} THEN SetMax(values) ELSE 0
  IN [minV |-> minV, maxV |-> Max2(maxV, Max2(Get(m, a, 0) + 1, Get(m, b, 0) + 1))]

minMaxGlobalAfter(run, a, b) == minMaxOf(run.playedCount, a, b)

minMaxGroupAfter(run, groupIdx, a, b) ==
  IF groupIdx \notin DOMAIN run.playedCountByGroup THEN [minV |-> 0, maxV |-> 0]
  ELSE minMaxOf(run.playedCountByGroup[groupIdx], a, b)

\* mutant: one time index of rest is enough
restOkStrictOne(run, teamId, timeIndex) ==
  timeIndex - Get(run.lastTimeIndex, teamId, NeverPlayed) >= 1

restOkStrict(run, teamId, timeIndex) ==
  timeIndex - Get(run.lastTimeIndex, teamId, NeverPlayed) >= 2

\* mutant: the window scan without the busy-team filter
SurvivesNoBusy(t, run, slot, strictRest, i) ==
  LET cand == run.sequence[i]
      g == clampInt(cand.groupIdx, 1, groupCount(t))
      gg == minMaxOf(run.playedCount, cand.a, cand.b)
      mg == IF g \in DOMAIN run.playedCountByGroup
              THEN minMaxOf(run.playedCountByGroup[g], cand.a, cand.b)
              ELSE [minV |-> 0, maxV |-> 0]
  IN /\ strictRest => /\ slot.timeIndex - Get(run.lastTimeIndex, cand.a, NeverPlayed) >= 2
                      /\ slot.timeIndex - Get(run.lastTimeIndex, cand.b, NeverPlayed) >= 2
     /\ gg.maxV - gg.minV <= 1
     /\ mg.maxV - mg.minV <= 1

\* mutant: the window scan with the equity caps at 2 instead of 1
SurvivesLooseEquity(t, run, slot, strictRest, i) ==
  LET cand == run.sequence[i]
      g == clampInt(cand.groupIdx, 1, groupCount(t))
      busySet == Get(run.busyAtTime, slot.start, {})
      gg == minMaxOf(run.playedCount, cand.a, cand.b)
      mg == IF g \in DOMAIN run.playedCountByGroup
              THEN minMaxOf(run.playedCountByGroup[g], cand.a, cand.b)
              ELSE [minV |-> 0, maxV |-> 0]
  IN /\ cand.a \notin busySet /\ cand.b \notin busySet
     /\ strictRest => /\ slot.timeIndex - Get(run.lastTimeIndex, cand.a, NeverPlayed) >= 2
                      /\ slot.timeIndex - Get(run.lastTimeIndex, cand.b, NeverPlayed) >= 2
     /\ gg.maxV - gg.minV <= 2
     /\ mg.maxV - mg.minV <= 2

\* the filters of the window scan, for the candidate at (1-based) position i
Survives(t, run, slot, strictRest, i) ==
  LET cand == run.sequence[i]
      g == clampInt(cand.groupIdx, 1, groupCount(t))
      busySet == Get(run.busyAtTime, slot.start, {})
      gg == minMaxGlobalAfter(run, cand.a, cand.b)
      mg == minMaxGroupAfter(run, g, cand.a, cand.b)
  IN /\ cand.a \notin busySet /\ cand.b \notin busySet
     /\ strictRest => (restOkStrict(run, cand.a, slot.timeIndex) /\ restOkStrict(run, cand.b, slot.timeIndex))
     /\ gg.maxV - gg.minV <= 1
     /\ mg.maxV - mg.minV <= 1

\* mutant: the order penalty with its sign reversed
ScoreLatestFirst(run, slot, strictRest, i) ==
  LET cand == run.sequence[i]
      fieldPenalty == Get(run.fieldUsage, slot.fieldIdx, 0) * 20
      orderPenalty == ((run.ptr + 1) - i) * 12
      consA == slot.timeIndex - Get(run.lastTimeIndex, cand.a, NeverPlayed) < 2
      consB == slot.timeIndex - Get(run.lastTimeIndex, cand.b, NeverPlayed) < 2
      relaxPenalty == IF ~strictRest /\ (consA \/ consB) THEN 800 ELSE 0
      lowPlayedBonus == (Get(run.playedCount, cand.a, 0) + Get(run.playedCount, cand.b, 0)) * 5
  IN fieldPenalty + orderPenalty + relaxPenalty + lowPlayedBonus

\* mutant: the field penalty read at the candidate's pool index, not at the
\* field of the cell
ScoreFieldByPool(run, slot, strictRest, i) ==
  LET cand == run.sequence[i]
      fieldPenalty == Get(run.fieldUsage, cand.groupIdx, 0) * 20
      orderPenalty == (i - (run.ptr + 1)) * 12
      consA == slot.timeIndex - Get(run.lastTimeIndex, cand.a, NeverPlayed) < 2
      consB == slot.timeIndex - Get(run.lastTimeIndex, cand.b, NeverPlayed) < 2
      relaxPenalty == IF ~strictRest /\ (consA \/ consB) THEN 800 ELSE 0
      lowPlayedBonus == (Get(run.playedCount, cand.a, 0) + Get(run.playedCount, cand.b, 0)) * 5
  IN fieldPenalty + orderPenalty + relaxPenalty + lowPlayedBonus

\* score * 10 of the candidate at position i (ptr counts the placed pairings)
Score(run, slot, strictRest, i) ==
  LET cand == run.sequence[i]
      fieldPenalty == Get(run.fieldUsage, slot.fieldIdx, 0) * 20
      orderPenalty == (i - (run.ptr + 1)) * 12
      consA == slot.timeIndex - Get(run.lastTimeIndex, cand.a, NeverPlayed) < 2
      consB == slot.timeIndex - Get(run.lastTimeIndex, cand.b, NeverPlayed) < 2
      relaxPenalty == IF ~strictRest /\ (consA \/ consB) THEN 800 ELSE 0
      lowPlayedBonus == (Get(run.playedCount, cand.a, 0) + Get(run.playedCount, cand.b, 0)) * 5
  IN fieldPenalty + orderPenalty + relaxPenalty + lowPlayedBonus

\* bestIndex of one pass (1-based), 0 when no candidate survives
bestIndex(t, run, slot, strictRest) ==
  LET endPtr == Min2(Len(run.sequence), run.ptr + LookaheadWindow)
      cands == {i \in (run.ptr + 1)..endPtr : Survives(t, run, slot, strictRest, i)}
  IN IF cands = {} THEN 0
     ELSE SetMin({i \in cands : \A j \in cands :
                    /\ Score(run, slot, strictRest, i) <= Score(run, slot, strictRest, j)})

\* mutant: the chosen entry is copied to the cursor, not exchanged
SwapOverwrite(seq, i, j) == [k \in DOMAIN seq |-> IF k = i THEN seq[j] ELSE seq[k]]

Swap(seq, i, j) == [k \in DOMAIN seq |-> IF k = i THEN seq[j] ELSE IF k = j THEN seq[i] ELSE seq[k]]

\* one iteration of the loop over allSlots
assignSlot(t, run, slot) ==
  IF run.ptr >= Len(run.sequence) THEN run
  ELSE
    LET strictIdx == bestIndex(t, run, slot, TRUE)
        chosenIndex == IF strictIdx # 0 THEN strictIdx ELSE bestIndex(t, run, slot, FALSE)
    IN IF chosenIndex = 0
         THEN [run EXCEPT !.busyAtTime = Put(@, slot.start, Get(@, slot.start, {}))]
         ELSE
           LET sequence == Swap(run.sequence, run.ptr + 1, chosenIndex)
               chosen == sequence[run.ptr + 1]
               gChosen == clampInt(chosen.groupIdx, 1, groupCount(t))
               pc1 == Put(run.playedCount, chosen.a, Get(run.playedCount, chosen.a, 0) + 1)
               pc2 == Put(pc1, chosen.b, Get(pc1, chosen.b, 0) + 1)
               byG == run.playedCountByGroup
               mapG1 == Put(byG[gChosen], chosen.a, Get(byG[gChosen], chosen.a, 0) + 1)
               mapG2 == Put(mapG1, chosen.b, Get(mapG1, chosen.b, 0) + 1)
           IN [sequence |-> sequence,
               ptr |-> run.ptr + 1,
               scheduled |-> Append(run.scheduled,
                               [home_team_id |-> chosen.a, away_team_id |-> chosen.b,
                                field_idx |-> slot.fieldIdx, start_time |-> slot.start]),
               relaxed |-> Append(run.relaxed, strictIdx = 0),
               lastTimeIndex |-> Put(Put(run.lastTimeIndex, chosen.a, slot.timeIndex),
                                     chosen.b, slot.timeIndex),
               busyAtTime |-> Put(run.busyAtTime, slot.start,
                                  Get(run.busyAtTime, slot.start, {}) \cup {chosen.a, chosen.b}),
               fieldUsage |-> Put(run.fieldUsage, slot.fieldIdx,
                                  Get(run.fieldUsage, slot.fieldIdx, 0) + 1),
               playedCount |-> pc2,
               playedCountByGroup |->
                 IF gChosen \in DOMAIN byG THEN [byG EXCEPT ![gChosen] = mapG2] ELSE byG]

RECURSIVE RunFrom(_, _, _, _)
RunFrom(t, run, slots, k) ==
  IF k > Len(slots) THEN run ELSE RunFrom(t, assignSlot(t, run, slots[k]), slots, k + 1)

\* the whole synchronous loop
assignAll(t, teams, sequence) == RunFrom(t, initRun(t, teams, sequence), allSlots(t), 1)

(* ------------------------------- state -------------------------------- *)
VARIABLES
  t,              \* the tournament row loaded by the page
  teamsTable,     \* storage: the teams of the tournament, in created_at order
  db,             \* storage: the persisted matches of the tournament
  matches,        \* page state: the in-memory match list
  editMode,       \* page state
  selectedCell,   \* page state: <<>> or <<hhmm, fieldIdx>>
  originalPositions, \* originalPositionsRef: match id -> [start, field]
  status,         \* page state: the message shown
  gen,            \* the generateMatches call in flight (its locals and position)
  save,           \* the saveManualEdits call in flight
  readerMatches,  \* the match list last fetched by the polling matches page
  gestures,       \* completed swap/move gestures so far (bounded by MaxGestures)
  fnCall          \* a pure function applied to a drawn input: [fn, arg, res]

vars == <<t, teamsTable, db, matches, editMode, selectedCell, originalPositions,
          status, gen, save, readerMatches, gestures, fnCall>>

NoCell == <<>>
GenIdle == [pc |-> "idle"]
SaveIdle == [pc |-> "idle"]
NoCall == [fn |-> "none"]

TeamsOf(m) == {m.home_team_id, m.away_team_id}

(* ------------------------------ storage ------------------------------- *)
\* a time column comes back as HH:MM:SS
asTime(hhmm) == <<hhmm[1], hhmm[2], 0>>

NextId(rows) == IF rows = {} THEN 1 ELSE SetMax({r.id : r \in rows}) + 1

\* .order("start_time").order("field_idx"); rows equal on both come in id order
RowBefore(x, y) ==
  LET ax == timeToMin(normHHMM(x.start_time))
      ay == timeToMin(normHHMM(y.start_time))
  IN \/ ax < ay
     \/ ax = ay /\ x.field_idx < y.field_idx
     \/ ax = ay /\ x.field_idx = y.field_idx /\ x.id <= y.id

RECURSIVE SortRows(_)
SortRows(rows) ==
  IF rows = {} THEN <<>>
  ELSE LET first == CHOOSE x \in rows : \A y \in rows : RowBefore(x, y)
       IN <<first>> \o SortRows(rows \ {first})

selectMatches == SortRows(db)

insertRows(rows, chunk) ==
  rows \cup {[id |-> NextId(rows) + k - 1,
              start_time |-> asTime(chunk[k].start_time),
              field_idx |-> chunk[k].field_idx,
              home_team_id |-> chunk[k].home_team_id,
              away_team_id |-> chunk[k].away_team_id] : k \in DOMAIN chunk}

(* ---------------------------- generateMatches ------------------------- *)
\* entry, up to the teams query
GenStart ==
  /\ gen.pc = "idle"
  /\ editMode' = FALSE
  /\ selectedCell' = NoCell
  /\ status' = "Génération des matchs..."
  /\ gen' = [pc |-> "teams", prev |-> db]
  /\ UNCHANGED <<t, teamsTable, db, matches, originalPositions, save, readerMatches, gestures, fnCall>>

\* mutant: the pre-flight without the capacity check
preflightNoCapacity(cfg, teams) ==
  LET minT == Coalesce(cfg.min_teams, DefaultMinTeams)
      maxT == Coalesce(cfg.max_teams, DefaultMaxTeams)
  IN IF Len(teams) < minT THEN "Pas assez d'équipes"
     ELSE IF Len(teams) > maxT THEN "Trop d'équipes"
     ELSE "ok"

\* the pre-flight checks made with the fetched roster
preflight(cfg, teams) ==
  LET minT == Coalesce(cfg.min_teams, DefaultMinTeams)
      maxT == Coalesce(cfg.max_teams, DefaultMaxTeams)
  IN IF Len(teams) < minT THEN "Pas assez d'équipes"
     ELSE IF Len(teams) > maxT THEN "Trop d'équipes"
     ELSE IF Len(buildSequence(cfg, teams)) > totalPlayableSlots(cfg) THEN "Planning impossible"
     ELSE "ok"

\* the teams query answers: checks, pairing, capacity, then the delete is sent
GenTeams ==
  /\ gen.pc = "teams"
  /\ \E teamErr \in BOOLEAN :
       IF teamErr
         THEN /\ status' = "Erreur teams"
              /\ gen' = GenIdle
         ELSE LET teams == teamsTable
                  verdict == preflight(t, teams)
              IN IF verdict # "ok"
                   THEN /\ status' = verdict
                        /\ gen' = GenIdle
                   ELSE /\ status' = status
                        /\ gen' = [pc |-> "delete", prev |-> gen.prev, teams |-> teams,
                                   sequence |-> buildSequence(t, teams)]
  /\ UNCHANGED <<t, teamsTable, db, matches, editMode, selectedCell, originalPositions,
                 save, readerMatches, gestures, fnCall>>

\* the delete answers; on success the whole assignment loop runs and the
\* first insert is sent
genDeleted(run, delErr) ==
  IF delErr
    THEN /\ status' = "Erreur delete matches"
         /\ gen' = GenIdle
         /\ db' = db
    ELSE /\ db' = {}
         /\ IF run.scheduled = <<>>
              THEN /\ status' = "OK"
                   /\ gen' = [gen EXCEPT !.pc = "refresh"] @@ [run |-> run, i |-> 0]
              ELSE /\ status' = status
                   /\ gen' = [gen EXCEPT !.pc = "insert"] @@ [run |-> run, i |-> 0]

\* mutant: the run keeps the played counts of the schedule shown on the page
GenDeleteRetaining ==
  /\ gen.pc = "delete"
  /\ \E delErr \in BOOLEAN :
       LET fresh == initRun(t, gen.teams, gen.sequence)
           kept == [fresh EXCEPT !.playedCount =
                      [id \in DOMAIN @ |->
                         Cardinality({k \in DOMAIN matches : id \in TeamsOf(matches[k])})]]
       IN genDeleted(RunFrom(t, kept, allSlots(t), 1), delErr)
  /\ UNCHANGED <<t, teamsTable, matches, editMode, selectedCell, originalPositions,
                 save, readerMatches, gestures, fnCall>>

GenDelete ==
  /\ gen.pc = "delete"
  /\ \E delErr \in BOOLEAN : genDeleted(assignAll(t, gen.teams, gen.sequence), delErr)
  /\ UNCHANGED <<t, teamsTable, matches, editMode, selectedCell, originalPositions,
                 save, readerMatches, gestures, fnCall>>

\* one chunk insert answers
GenInsert ==
  /\ gen.pc = "insert"
  /\ \E error \in BOOLEAN :
       LET scheduled == gen.run.scheduled
           chunk == SubSeq(scheduled, gen.i + 1, Min2(Len(scheduled), gen.i + InsertChunkSize))
       IN IF error
            THEN /\ status' = "Erreur insert matches"
                 /\ gen' = GenIdle
                 /\ db' = db
            ELSE /\ db' = insertRows(db, chunk)
                 /\ IF gen.i + InsertChunkSize < Len(scheduled)
                      THEN /\ gen' = [gen EXCEPT !.i = @ + InsertChunkSize]
                           /\ status' = status
                      ELSE /\ gen' = [gen EXCEPT !.pc = "refresh", !.i = @ + InsertChunkSize]
                           /\ status' = "OK"
  /\ UNCHANGED <<t, teamsTable, matches, editMode, selectedCell, originalPositions,
                 save, readerMatches, gestures, fnCall>>

\* the final refreshMatches answers
GenRefresh ==
  /\ gen.pc = "refresh"
  /\ \E error \in BOOLEAN : matches' = IF error THEN matches ELSE selectMatches
  /\ gen' = GenIdle
  /\ UNCHANGED <<t, teamsTable, db, editMode, selectedCell, originalPositions,
                 status, save, readerMatches, gestures, fnCall>>

(* ------------------------- the teams page (roster) -------------------- *)
AddTeam ==
  /\ gen.pc = "idle"
  /\ Len(teamsTable) < MaxTeams
  /\ \E g \in 1..2 : teamsTable' = Append(teamsTable, [id |-> Len(teamsTable) + 1, group_idx |-> g])
  /\ UNCHANGED <<t, db, matches, editMode, selectedCell, originalPositions, status,
                 gen, save, readerMatches, gestures, fnCall>>

RemoveTeam ==
  /\ gen.pc = "idle"
  /\ teamsTable # <<>>
  /\ teamsTable' = SubSeq(teamsTable, 1, Len(teamsTable) - 1)
  /\ UNCHANGED <<t, db, matches, editMode, selectedCell, originalPositions, status,
                 gen, save, readerMatches, gestures, fnCall>>

(* ------------------------- the polling matches page ------------------- *)
\* refreshMatches of the matches page (interval, focus or realtime event)
ReaderRefresh ==
  /\ readerMatches' = selectMatches
  /\ readerMatches' # readerMatches
  /\ UNCHANGED <<t, teamsTable, db, matches, editMode, selectedCell, originalPositions,
                 status, gen, save, gestures, fnCall>>


(* ----------------------------- manual editing ------------------------- *)
cellKey(hhmm, fieldIdx) == <<hhmm, fieldIdx>>

\* matchMap: key -> match; a later match of the list replaces an earlier one
matchMapHas(list, key) ==
  \E i \in DOMAIN list : cellKey(normHHMM(list[i].start_time), list[i].field_idx) = key

matchMapGet(list, key) ==
  list[SetMax({i \in DOMAIN list : cellKey(normHHMM(list[i].start_time), list[i].field_idx) = key})]

\* Array.prototype.sort with the comparator of onCellClick (stable)
CellBefore(x, y) ==
  LET ax == timeToMin(normHHMM(x.start_time))
      ay == timeToMin(normHHMM(y.start_time))
  IN ax < ay \/ (ax = ay /\ x.field_idx < y.field_idx)

RECURSIVE InsertSorted(_, _)
InsertSorted(sorted, x) ==
  IF sorted = <<>> THEN <<x>>
  ELSE IF CellBefore(x, Head(sorted)) THEN <<x>> \o sorted
  ELSE <<Head(sorted)>> \o InsertSorted(Tail(sorted), x)

RECURSIVE SortByCell(_)
SortByCell(list) ==
  IF list = <<>> THEN <<>>
  ELSE InsertSorted(SortByCell(SubSeq(list, 1, Len(list) - 1)), list[Len(list)])

\* move: the first entry with the id gets the new position
move(list, matchId, newTime, newField) ==
  LET hits == {i \in DOMAIN list : list[i].id = matchId}
  IN IF hits = {} THEN list
     ELSE [list EXCEPT ![SetMin(hits)] = [@ EXCEPT !.start_time = newTime, !.field_idx = newField]]

\* mutant: a swap that moves only the match of the selected cell
swapCellsOneWay(prev, sTime, sField, hhmm, fieldIdx) ==
  LET hasA == matchMapHas(prev, cellKey(sTime, sField))
      a == matchMapGet(prev, cellKey(sTime, sField))
  IN SortByCell(IF hasA THEN move(prev, a.id, hhmm, fieldIdx) ELSE prev)

\* the setMatches updater of a completed gesture: selected cell <-> clicked cell
swapCells(prev, sTime, sField, hhmm, fieldIdx) ==
  LET hasA == matchMapHas(prev, cellKey(sTime, sField))
      hasB == matchMapHas(prev, cellKey(hhmm, fieldIdx))
      a == matchMapGet(prev, cellKey(sTime, sField))
      b == matchMapGet(prev, cellKey(hhmm, fieldIdx))
      next == IF hasA /\ hasB
                THEN move(move(prev, a.id, normHHMM(b.start_time), b.field_idx), b.id, sTime, sField)
              ELSE IF hasA THEN move(prev, a.id, hhmm, fieldIdx)
              ELSE IF hasB THEN move(prev, b.id, sTime, sField)
              ELSE prev
  IN SortByCell(next)

enterEditMode ==
  /\ ~editMode
  /\ originalPositions' =
       [id \in {matches[i].id : i \in DOMAIN matches} |->
          LET m == matches[SetMax({i \in DOMAIN matches : matches[i].id = id})]
          IN [start |-> normHHMM(m.start_time), field |-> m.field_idx]]
  /\ selectedCell' = NoCell
  /\ editMode' = TRUE
  /\ status' = "Mode modification manuelle activé"
  /\ UNCHANGED <<t, teamsTable, db, matches, gen, save, readerMatches, gestures, fnCall>>

\* mutant: a completed gesture with neither pause guard
cellClickNoPauseGuard(hhmm, fieldIdx) ==
  LET key == cellKey(hhmm, fieldIdx)
  IN IF selectedCell = NoCell
       THEN /\ selectedCell' = key
            /\ UNCHANGED <<matches, status, gestures>>
     ELSE IF selectedCell = key
       THEN /\ selectedCell' = NoCell
            /\ UNCHANGED <<matches, status, gestures>>
     ELSE /\ matches' = swapCells(matches, selectedCell[1], selectedCell[2], hhmm, fieldIdx)
          /\ selectedCell' = NoCell
          /\ gestures' = gestures + 1
          /\ status' = status

\* the body of onCellClick, in edit mode, for the cell (hhmm, fieldIdx)
cellClick(hhmm, fieldIdx) ==
  LET key == cellKey(hhmm, fieldIdx)
  IN IF isPaused(t, fieldIdx, hhmm)
       THEN UNCHANGED <<selectedCell, matches, status, gestures>>
     ELSE IF selectedCell = NoCell
       THEN /\ selectedCell' = key
            /\ UNCHANGED <<matches, status, gestures>>
     ELSE IF selectedCell = key
       THEN /\ selectedCell' = NoCell
            /\ UNCHANGED <<matches, status, gestures>>
     ELSE IF isPaused(t, selectedCell[2], selectedCell[1])
       THEN /\ status' = "Impossible: une des cellules est en pause"
            /\ selectedCell' = NoCell
            /\ UNCHANGED <<matches, gestures>>
     ELSE /\ matches' = swapCells(matches, selectedCell[1], selectedCell[2], hhmm, fieldIdx)
          /\ selectedCell' = NoCell
          /\ gestures' = gestures + 1
          /\ status' = status

\* the grid renders a button on a cell that holds a match or is not paused
hasButton(hhmm, fieldIdx) ==
  matchMapHas(matches, cellKey(hhmm, fieldIdx)) \/ ~isPaused(t, fieldIdx, hhmm)

\* a click on a grid cell that renders a button
onCellClick ==
  /\ editMode
  /\ gestures < MaxGestures
  /\ \E k \in DOMAIN timeline(t) : \E fieldIdx \in 1..t.num_fields :
       /\ hasButton(timeline(t)[k], fieldIdx)
       /\ cellClick(timeline(t)[k], fieldIdx)
  /\ UNCHANGED <<t, teamsTable, db, editMode, originalPositions, gen, save, readerMatches, fnCall>>

\* onCellClick with the click kept on record: the cell clicked and the
\* selection it met
onCellClickTraced ==
  /\ editMode
  /\ gestures < MaxGestures
  /\ \E k \in DOMAIN timeline(t) : \E fieldIdx \in 1..t.num_fields :
       /\ hasButton(timeline(t)[k], fieldIdx)
       /\ cellClick(timeline(t)[k], fieldIdx)
       /\ fnCall' = [fn |-> "onCellClick", cell |-> cellKey(timeline(t)[k], fieldIdx),
                     selected |-> selectedCell]
  /\ UNCHANGED <<t, teamsTable, db, editMode, originalPositions, gen, save, readerMatches>>

\* cancelEditMode, up to its refreshMatches
cancelEditMode ==
  /\ editMode
  /\ save.pc = "idle"
  /\ editMode' = FALSE
  /\ selectedCell' = NoCell
  /\ status' = "Annulé."
  /\ save' = [pc |-> "refresh"]
  /\ UNCHANGED <<t, teamsTable, db, matches, originalPositions, gen, readerMatches, gestures, fnCall>>

\* mutant: every match of the snapshot is written, changed or not
updatesOfAll(list, orig) ==
  LET known == SelectSeq(list, LAMBDA m : m.id \in DOMAIN orig)
  IN [i \in DOMAIN known |->
        [id |-> known[i].id, start_time |-> normHHMM(known[i].start_time),
         field_idx |-> known[i].field_idx]]

\* the changes against the snapshot, in list order
RECURSIVE updatesOf(_, _)
updatesOf(list, orig) ==
  IF list = <<>> THEN <<>>
  ELSE LET m == Head(list)
           curStart == normHHMM(m.start_time)
           curField == m.field_idx
       IN (IF m.id \in DOMAIN orig /\ (orig[m.id].start # curStart \/ orig[m.id].field # curField)
             THEN <<[id |-> m.id, start_time |-> curStart, field_idx |-> curField]>>
             ELSE <<>>)
          \o updatesOf(Tail(list), orig)

\* the byTime validation: some match meets a team already seen at its time
hasDuplicateTeam(list) ==
  \E j \in DOMAIN list : \E i \in 1..(j - 1) :
    /\ normHHMM(list[i].start_time) = normHHMM(list[j].start_time)
    /\ TeamsOf(list[i]) \cap TeamsOf(list[j]) # {}

\* saveManualEdits, up to its first batch of updates
saveManualEdits ==
  /\ editMode
  /\ save.pc = "idle"
  /\ LET orig == originalPositions
         updates == updatesOf(matches, orig)
     IN IF DOMAIN orig = {}
          THEN /\ editMode' = FALSE
               /\ status' = "Rien à enregistrer."
               /\ UNCHANGED <<save, selectedCell>>
        ELSE IF hasDuplicateTeam(matches)
          THEN /\ status' = "Invalide: une équipe est présente 2 fois"
               /\ UNCHANGED <<save, editMode, selectedCell>>
        ELSE IF updates = <<>>
          THEN /\ status' = "Aucun changement."
               /\ editMode' = FALSE
               /\ UNCHANGED <<save, selectedCell>>
        ELSE /\ status' = "Enregistrement..."
             /\ save' = [pc |-> "update", updates |-> updates, i |-> 0]
             /\ UNCHANGED <<editMode, selectedCell>>
  /\ UNCHANGED <<t, teamsTable, db, matches, originalPositions, gen, readerMatches, gestures, fnCall>>

\* storage: the rows with the ids of `applied` get their new position
updateRows(rows, applied) ==
  {IF \E u \in applied : u.id = r.id
     THEN LET u == CHOOSE u \in applied : u.id = r.id
          IN [r EXCEPT !.start_time = asTime(u.start_time), !.field_idx = u.field_idx]
     ELSE r : r \in rows}

\* the batch in flight
saveBatch(s) == SubSeq(s.updates, s.i + 1, Min2(Len(s.updates), s.i + UpdateChunkSize))

\* the status after a batch answered with the updates `failed` in error: the
\* text of the first error (the storage's text, which names no row), the
\* success text after the last batch, the old status in between
saveOutcome(s, failed) ==
  IF failed # {} THEN "Erreur enregistrement"
  ELSE IF s.i + UpdateChunkSize < Len(s.updates) THEN status
  ELSE "Modifications enregistrées."

\* one batch of row updates answers (Promise.all): each update of the batch is
\* applied or fails on its own
saveChunk ==
  /\ save.pc = "update"
  /\ LET chunk == saveBatch(save)
     IN \E failed \in SUBSET (DOMAIN chunk) :
          /\ db' = updateRows(db, {chunk[k] : k \in DOMAIN chunk \ failed})
          /\ status' = saveOutcome(save, failed)
          /\ IF failed # {}
               THEN /\ save' = SaveIdle
                    /\ UNCHANGED <<editMode, selectedCell>>
             ELSE IF save.i + UpdateChunkSize < Len(save.updates)
               THEN /\ save' = [save EXCEPT !.i = @ + UpdateChunkSize]
                    /\ UNCHANGED <<editMode, selectedCell>>
             ELSE /\ editMode' = FALSE
                  /\ selectedCell' = NoCell
                  /\ save' = [pc |-> "refresh"]
  /\ UNCHANGED <<t, teamsTable, matches, originalPositions, gen, readerMatches, gestures, fnCall>>

\* the refreshMatches that ends saveManualEdits and cancelEditMode answers
editRefresh ==
  /\ save.pc = "refresh"
  /\ \E error \in BOOLEAN : matches' = IF error THEN matches ELSE selectMatches
  /\ save' = SaveIdle
  /\ UNCHANGED <<t, teamsTable, db, editMode, selectedCell, originalPositions, status,
                 gen, readerMatches, gestures, fnCall>>

(* ---------------------------- configurations -------------------------- *)
DayStart == 540 \* 09:00

BaseCfg ==
  [start_time |-> asTime(minToTime(DayStart)), end_time |-> asTime(minToTime(DayStart)),
   match_duration_min |-> 10, rotation_duration_min |-> 5,
   num_fields |-> 1, pauses |-> <<>>, field_pauses |-> <<>>,
   min_teams |-> NULL, max_teams |-> NULL,
   format |-> "round_robin", group_count |-> NULL]

\* window ends: k whole slots of 15 minutes, and one with an unusable remainder
EndTimes ==
  {asTime(minToTime(DayStart + 15 * k)) : k \in 0..MaxTimes}
    \cup {asTime(minToTime(DayStart + 15 * MaxTimes + 10))}

GlobalPause(from, to) == [type |-> "tournament", from |-> from, to |-> to, exceptFields |-> {}]
ExceptPause(from, to, fields) ==
  [type |-> "tournament_except", from |-> from, to |-> to, exceptFields |-> fields]
Pause(from, to) == [from |-> from, to |-> to]

\* the pause settings explored: [pauses, field_pauses]
PauseOptions ==
  { [pauses |-> <<>>, field_pauses |-> <<>>],
    [pauses |-> <<GlobalPause(<<9, 15>>, <<9, 30>>)>>, field_pauses |-> <<>>],
    [pauses |-> <<ExceptPause(<<9, 15>>, <<9, 30>>, {1})>>, field_pauses |-> <<>>],
    [pauses |-> <<>>, field_pauses |-> (1 :> <<Pause(<<9, 0>>, <<9, 20>>)>>)],
    [pauses |-> <<>>, field_pauses |-> (2 :> <<Pause(<<9, 15>>, <<9, 30>>)>>)] }

FlatFormat == [format |-> "round_robin", group_count |-> NULL]

\* pooled, and flat with a pool count left over from a pooled setting
PoolFormats ==
  { [format |-> "groups_round_robin", group_count |-> 2],
    [format |-> "round_robin", group_count |-> 2] }

PoolPauseOptions ==
  { [pauses |-> <<>>, field_pauses |-> <<>>],
    [pauses |-> <<GlobalPause(<<9, 15>>, <<9, 30>>)>>, field_pauses |-> <<>>] }

Configs ==
  { [BaseCfg EXCEPT !.end_time = e, !.num_fields = nf,
                    !.pauses = p.pauses, !.field_pauses = p.field_pauses] :
      e \in EndTimes, nf \in 1..MaxFields, p \in PauseOptions }
  \cup
  { [BaseCfg EXCEPT !.end_time = e, !.num_fields = nf,
                    !.pauses = p.pauses, !.field_pauses = p.field_pauses,
                    !.format = f.format, !.group_count = f.group_count] :
      e \in EndTimes, nf \in 1..MaxFields, p \in PoolPauseOptions, f \in PoolFormats }
  \cup
  { [BaseCfg EXCEPT !.end_time = e, !.num_fields = MaxFields,
                    !.min_teams = 3, !.max_teams = 3] : e \in EndTimes }

(* --------------------------- specifications --------------------------- *)
\* the rosters explored: ids 1..n in creation order, each team in pool 1 or 2
Rosters ==
  UNION { { [i \in 1..n |-> [id |-> i, group_idx |-> g[i]]] : g \in [1..n -> 1..2] } :
          n \in 0..MaxTeams }

InitPage(cfgs, rosters) ==
  /\ t \in cfgs
  /\ teamsTable \in rosters
  /\ db = {}
  /\ matches = <<>>
  /\ editMode = FALSE
  /\ selectedCell = NoCell
  /\ originalPositions = <<>>
  /\ status = ""
  /\ gen = GenIdle
  /\ save = SaveIdle
  /\ readerMatches = <<>>
  /\ gestures = 0
  /\ fnCall = NoCall

Init == InitPage(Configs, Rosters)

Next ==
  \/ GenStart
  \/ GenTeams
  \/ GenDelete
  \/ GenInsert
  \/ GenRefresh

\* generation runs over every configuration and roster
Spec == Init /\ [][Next]_vars


(* ------------------- manual editing of a generated grid --------------- *)
FlatRoster(n) == [i \in 1..n |-> [id |-> i, group_idx |-> 1]]

\* three fields and two grid times: four teams get four matches and two empty
\* cells; with field 3 paused at 09:15, three teams get one match
EditGrid == [BaseCfg EXCEPT !.end_time = <<9, 30, 0>>, !.num_fields = 3]

EditSetups ==
  { [cfg |-> EditGrid, teams |-> FlatRoster(4)],
    [cfg |-> [EditGrid EXCEPT !.field_pauses = (3 :> <<Pause(<<9, 15>>, <<9, 30>>)>>)],
     teams |-> FlatRoster(3)] }

InitEdit ==
  \E s \in EditSetups : InitPage({s.cfg}, {s.teams})

\* the user starts generateMatches only outside edit mode and while no save or
\* cancel is in flight, and edits only while no generation is in flight
GenStartQuiet == ~editMode /\ save.pc = "idle" /\ GenStart
EditQuiet(A) == gen.pc = "idle" /\ A

NextEdit ==
  \/ GenStartQuiet
  \/ GenTeams
  \/ GenDelete
  \/ GenInsert
  \/ GenRefresh
  \/ EditQuiet(enterEditMode)
  \/ EditQuiet(onCellClick)
  \/ EditQuiet(cancelEditMode)
  \/ EditQuiet(saveManualEdits)
  \/ saveChunk
  \/ editRefresh

\* generation and manual editing on one page
SpecEdit == InitEdit /\ [][NextEdit]_vars

(* --------------- generation under roster changes and a reader --------- *)
\* two fields and two grid times, with the default and with tight team bounds
ReadConfigs ==
  { [BaseCfg EXCEPT !.end_time = <<9, 30, 0>>, !.num_fields = 2],
    [BaseCfg EXCEPT !.end_time = <<9, 30, 0>>, !.num_fields = 2,
                    !.min_teams = 3, !.max_teams = 3] }

InitRead == InitPage(ReadConfigs, {<<>>})

NextRead ==
  \/ GenStart
  \/ GenTeams
  \/ GenDelete
  \/ GenInsert
  \/ GenRefresh
  \/ AddTeam
  \/ RemoveTeam
  \/ ReaderRefresh

\* generation runs while the roster changes and the matches page polls
SpecRead == InitRead /\ [][NextRead]_vars

(* ---------------- gestures on a grid whose pauses were edited --------- *)
\* the settings saved between two visits of the page: no pause, field 1
\* paused in the first quarter hour, field 3 paused in the second
ClickConfigs ==
  { EditGrid,
    [EditGrid EXCEPT !.field_pauses = (1 :> <<Pause(<<9, 0>>, <<9, 15>>)>>)],
    [EditGrid EXCEPT !.field_pauses = (3 :> <<Pause(<<9, 15>>, <<9, 30>>)>>)] }

\* the page is opened again: the mount effect loads the tournament row and
\* the matches into a fresh component
load ==
  /\ gen.pc = "idle"
  /\ save.pc = "idle"
  /\ t' \in ClickConfigs \ {t}
  /\ status' = ""
  /\ matches' = selectMatches
  /\ editMode' = FALSE
  /\ selectedCell' = NoCell
  /\ originalPositions' = <<>>
  /\ UNCHANGED <<teamsTable, db, gen, save, readerMatches, gestures, fnCall>>

InitClick == InitPage({EditGrid}, {FlatRoster(4)})

NextClick ==
  \/ GenStartQuiet
  \/ GenTeams
  \/ GenDelete
  \/ GenInsert
  \/ GenRefresh
  \/ load
  \/ EditQuiet(enterEditMode)
  \/ EditQuiet(onCellClickTraced)

\* gestures, each click on record, on a grid generated before or after the
\* pauses were edited
SpecClick == InitClick /\ [][NextClick]_vars

(* ------------- generation on a row whose bounds are invalid ---------- *)
\* tournament rows a writer without the settings checks can leave: a window
\* that ends at or before its start, or min_teams above max_teams, flat and
\* pooled; EditGrid is the valid row beside them
BoundsConfigs ==
  { [BaseCfg EXCEPT !.end_time = asTime(minToTime(DayStart - 15 * k)), !.num_fields = 2,
                    !.format = f.format, !.group_count = f.group_count] :
      k \in 0..1, f \in {FlatFormat} \cup PoolFormats }
  \cup
  { [EditGrid EXCEPT !.min_teams = MaxTeams - 1, !.max_teams = MaxTeams - 2],
    [EditGrid EXCEPT !.min_teams = DefaultMinTeams, !.max_teams = DefaultMinTeams - 1],
    EditGrid }

\* the rows a generation for teams 1 and 2 left while the row was valid
EarlierRows ==
  insertRows({}, assignAll(EditGrid, FlatRoster(2),
                           buildSequence(EditGrid, FlatRoster(2))).scheduled)

InitBounds ==
  /\ t \in BoundsConfigs
  /\ teamsTable \in Rosters
  /\ db = EarlierRows
  /\ matches = SortRows(EarlierRows)
  /\ editMode = FALSE
  /\ selectedCell = NoCell
  /\ originalPositions = <<>>
  /\ status = ""
  /\ gen = GenIdle
  /\ save = SaveIdle
  /\ readerMatches = <<>>
  /\ gestures = 0
  /\ fnCall = NoCall

NextBounds ==
  \/ GenStart
  \/ GenTeams
  \/ GenDelete
  \/ GenInsert
  \/ GenRefresh

\* generateMatches on valid and invalid rows, over every roster
SpecBounds == InitBounds /\ [][NextBounds]_vars

(* ------------- one field, 09:00-11:00, a roster that grows ----------- *)
\* flat format, slot 10 + 5, one field, no pauses
ScenarioCfg == [BaseCfg EXCEPT !.end_time = <<11, 0, 0>>]

InitScenario == InitPage({ScenarioCfg}, {<<>>})

NextScenario ==
  \/ GenStart
  \/ GenTeams
  \/ GenDelete
  \/ GenInsert
  \/ GenRefresh
  \/ AddTeam
  \/ RemoveTeam

\* generation on the one-field day while teams register and withdraw
SpecScenario == InitScenario /\ [][NextScenario]_vars

(* ------------- the assignment loop, one cell per step ---------------- *)
\* long days: every pairing of a large flat roster fits, and a two-pool day
LongDays ==
  { [BaseCfg EXCEPT !.end_time = <<13, 0, 0>>, !.num_fields = 2],
    [BaseCfg EXCEPT !.end_time = <<11, 0, 0>>, !.num_fields = 3,
                    !.pauses = <<GlobalPause(<<9, 30>>, <<9, 45>>)>>] }

PoolDay ==
  [BaseCfg EXCEPT !.end_time = <<11, 0, 0>>, !.num_fields = 2,
                  !.format = "groups_round_robin", !.group_count = 2]

\* n teams, the odd ids in pool 1 and the even ids in pool 2
SplitRoster(n) == [i \in 1..n |-> [id |-> i, group_idx |-> 2 - (i % 2)]]

LoopSetups ==
  { [cfg |-> c, teams |-> r] : c \in Configs, r \in Rosters }
  \cup { [cfg |-> c, teams |-> FlatRoster(n)] : c \in LongDays, n \in (MaxTeams + 1)..LoopTeams }
  \cup { [cfg |-> PoolDay, teams |-> SplitRoster(n)] : n \in (MaxTeams + 1)..LoopTeams }

InitLoop ==
  \E s \in LoopSetups : InitPage({s.cfg}, {s.teams})

\* the checks passed and the delete answered: the run state is built
loopStart ==
  /\ fnCall = NoCall
  /\ preflight(t, teamsTable) = "ok"
  /\ fnCall' = [fn |-> "assignLoop", k |-> 0,
                run |-> initRun(t, teamsTable, buildSequence(t, teamsTable))]
  /\ UNCHANGED <<t, teamsTable, db, matches, editMode, selectedCell, originalPositions,
                 status, gen, save, readerMatches, gestures>>

\* one iteration of `for (const slot of allSlots)`, up to the break
loopStep ==
  /\ fnCall.fn = "assignLoop"
  /\ fnCall.k < Len(allSlots(t))
  /\ fnCall.run.ptr < Len(fnCall.run.sequence)
  /\ fnCall' = [fnCall EXCEPT !.k = @ + 1,
                              !.run = assignSlot(t, @, allSlots(t)[fnCall.k + 1])]
  /\ UNCHANGED <<t, teamsTable, db, matches, editMode, selectedCell, originalPositions,
                 status, gen, save, readerMatches, gestures>>

NextLoop ==
  \/ loopStart
  \/ loopStep

\* the assignment loop of one run, observed cell by cell
SpecLoop == InitLoop /\ [][NextLoop]_vars

(* ------------- a second generateMatches run on the tournament -------- *)
\* generateMatches is started again while a run may be in flight (the button
\* is never disabled, and a second tab holds the same page); the steps of
\* that second call, its storage effects only, are kept in fnCall
otherGenStart ==
  /\ fnCall = NoCall
  /\ fnCall' = [fn |-> "generateMatches", pc |-> "teams"]
  /\ UNCHANGED <<t, teamsTable, db, matches, editMode, selectedCell, originalPositions,
                 status, gen, save, readerMatches, gestures>>

otherGenTeams ==
  /\ fnCall.fn = "generateMatches"
  /\ fnCall.pc = "teams"
  /\ \E teamErr \in BOOLEAN :
       fnCall' = IF teamErr \/ preflight(t, teamsTable) # "ok"
                   THEN [fn |-> "generateMatches", pc |-> "returned"]
                   ELSE [fn |-> "generateMatches", pc |-> "delete", teams |-> teamsTable,
                         sequence |-> buildSequence(t, teamsTable)]
  /\ UNCHANGED <<t, teamsTable, db, matches, editMode, selectedCell, originalPositions,
                 status, gen, save, readerMatches, gestures>>

otherGenDeleted(run, delErr) ==
  IF delErr
    THEN /\ fnCall' = [fn |-> "generateMatches", pc |-> "returned"]
         /\ db' = db
    ELSE /\ db' = {}
         /\ fnCall' = [fn |-> "generateMatches",
                       pc |-> IF run.scheduled = <<>> THEN "done" ELSE "insert",
                       run |-> run, i |-> 0]

\* the delete of either run answers: that run's assignment loop runs and its
\* first insert is sent
deleteAnswered ==
  /\ \E other \in BOOLEAN :
       LET call == IF other THEN fnCall ELSE gen
       IN /\ other => fnCall.fn = "generateMatches"
          /\ call.pc = "delete"
          /\ \E delErr \in BOOLEAN :
               LET run == assignAll(t, call.teams, call.sequence)
               IN IF other
                    THEN otherGenDeleted(run, delErr) /\ UNCHANGED <<gen, status>>
                    ELSE genDeleted(run, delErr) /\ UNCHANGED fnCall
  /\ UNCHANGED <<t, teamsTable, matches, editMode, selectedCell, originalPositions,
                 save, readerMatches, gestures>>

otherGenInsert ==
  /\ fnCall.fn = "generateMatches"
  /\ fnCall.pc = "insert"
  /\ \E error \in BOOLEAN :
       LET scheduled == fnCall.run.scheduled
           chunk == SubSeq(scheduled, fnCall.i + 1,
                           Min2(Len(scheduled), fnCall.i + InsertChunkSize))
       IN IF error
            THEN /\ fnCall' = [fn |-> "generateMatches", pc |-> "returned"]
                 /\ db' = db
            ELSE /\ db' = insertRows(db, chunk)
                 /\ fnCall' = [fnCall EXCEPT
                                 !.pc = IF fnCall.i + InsertChunkSize < Len(scheduled)
                                          THEN "insert" ELSE "done",
                                 !.i = @ + InsertChunkSize]
  /\ UNCHANGED <<t, teamsTable, matches, editMode, selectedCell, originalPositions,
                 status, gen, save, readerMatches, gestures>>

InitTwoRuns == InitPage({EditGrid}, {FlatRoster(2), FlatRoster(4)})

NextTwoRuns ==
  \/ GenStart
  \/ GenTeams
  \/ GenInsert
  \/ GenRefresh
  \/ otherGenStart
  \/ otherGenTeams
  \/ otherGenInsert
  \/ deleteAnswered

\* two generateMatches runs of one tournament, their storage calls interleaved
SpecTwoRuns == InitTwoRuns /\ [][NextTwoRuns]_vars

(* ------------------ the pure functions, call by call ------------------ *)
\* lists of distinct team ids, of every length up to MaxRRTeams
RECURSIVE DistinctSeqs(_, _)
DistinctSeqs(ids, n) ==
  IF n = 0 THEN {<<>>}
  ELSE {<<>>} \cup UNION { {<<x>> \o s : s \in DistinctSeqs(ids \ {x}, n - 1)} : x \in ids }

TeamIdLists == DistinctSeqs(1..MaxRRTeams, MaxRRTeams)

\* the times of day a pause may start or end: every 5 minutes around the grid
PauseTimes == {minToTime(DayStart + 5 * k) : k \in 0..(3 * MaxTimes)}

PauseWindows == {w \in PauseTimes \X PauseTimes : timeToMin(w[1]) < timeToMin(w[2])}

\* one pause window, of each kind
OnePauseOptions ==
  UNION { { [pauses |-> <<GlobalPause(w[1], w[2])>>, field_pauses |-> <<>>],
            [pauses |-> <<ExceptPause(w[1], w[2], {1})>>, field_pauses |-> <<>>],
            [pauses |-> <<>>, field_pauses |-> (1 :> <<Pause(w[1], w[2])>>)] } :
          w \in PauseWindows }

\* slots of 15 and of 10 minutes over MaxTimes quarter hours
PauseConfigs ==
  { [BaseCfg EXCEPT !.end_time = asTime(minToTime(DayStart + 15 * MaxTimes)),
                    !.num_fields = MaxFields, !.rotation_duration_min = rot,
                    !.pauses = p.pauses, !.field_pauses = p.field_pauses] :
      rot \in {0, 5}, p \in OnePauseOptions }

\* the calls explored: roundRobinPairs on a list of ids, isPaused on a grid cell
PureCalls ==
  { [fn |-> "roundRobinPairs", teamIds |-> ids, done |-> FALSE] : ids \in TeamIdLists }
  \cup
  UNION { { [fn |-> "isPaused", t |-> cfg, fieldIdx |-> f, startHHMM |-> timeline(cfg)[k],
             done |-> FALSE] : f \in 1..cfg.num_fields, k \in DOMAIN timeline(cfg) } :
          cfg \in PauseConfigs }

InitPure ==
  /\ t = BaseCfg
  /\ teamsTable = <<>>
  /\ db = {}
  /\ matches = <<>>
  /\ editMode = FALSE
  /\ selectedCell = NoCell
  /\ originalPositions = <<>>
  /\ status = ""
  /\ gen = GenIdle
  /\ save = SaveIdle
  /\ readerMatches = <<>>
  /\ gestures = 0
  /\ fnCall \in PureCalls

ApplyRoundRobinPairs ==
  /\ fnCall.fn = "roundRobinPairs"
  /\ ~fnCall.done
  /\ fnCall' = [fn |-> "roundRobinPairs", teamIds |-> fnCall.teamIds, done |-> TRUE,
                result |-> roundRobinPairs(fnCall.teamIds)]
  /\ UNCHANGED <<t, teamsTable, db, matches, editMode, selectedCell, originalPositions,
                 status, gen, save, readerMatches, gestures>>

ApplyIsPaused ==
  /\ fnCall.fn = "isPaused"
  /\ ~fnCall.done
  /\ fnCall' = [fn |-> "isPaused", t |-> fnCall.t, fieldIdx |-> fnCall.fieldIdx,
                startHHMM |-> fnCall.startHHMM, done |-> TRUE,
                result |-> isPaused(fnCall.t, fnCall.fieldIdx, fnCall.startHHMM)]
  /\ UNCHANGED <<t, teamsTable, db, matches, editMode, selectedCell, originalPositions,
                 status, gen, save, readerMatches, gestures>>

NextPure ==
  \/ ApplyRoundRobinPairs
  \/ ApplyIsPaused

\* roundRobinPairs and isPaused applied to every input of the bounded sets
SpecPure == InitPure /\ [][NextPure]_vars

(* ------------------ isPaused on several pauses of a kind -------------- *)
\* the quarter hours of the grid as pause windows
QuarterWindows ==
  {<<minToTime(DayStart + 15 * k), minToTime(DayStart + 15 * (k + 1))>> : k \in 0..(MaxTimes - 1)}

\* two different windows of one kind: two global pauses, two except-pauses
\* (allow-lists {1} and {2}), two pauses of field 1
TwoPauseOptions ==
  UNION { { [pauses |-> <<GlobalPause(v[1], v[2]), GlobalPause(w[1], w[2])>>,
             field_pauses |-> <<>>],
            [pauses |-> <<ExceptPause(v[1], v[2], {1}), ExceptPause(w[1], w[2], {2})>>,
             field_pauses |-> <<>>],
            [pauses |-> <<>>,
             field_pauses |-> (1 :> <<Pause(v[1], v[2]), Pause(w[1], w[2])>>)] } :
          <<v, w>> \in {x \in QuarterWindows \X QuarterWindows : x[1] # x[2]} }

TwoPauseConfigs ==
  { [BaseCfg EXCEPT !.end_time = asTime(minToTime(DayStart + 15 * MaxTimes)),
                    !.num_fields = MaxFields,
                    !.pauses = p.pauses, !.field_pauses = p.field_pauses] :
      p \in TwoPauseOptions }

PauseCalls ==
  UNION { { [fn |-> "isPaused", t |-> cfg, fieldIdx |-> f, startHHMM |-> timeline(cfg)[k],
             done |-> FALSE] : f \in 1..cfg.num_fields, k \in DOMAIN timeline(cfg) } :
          cfg \in TwoPauseConfigs }

InitPauses ==
  /\ t = BaseCfg
  /\ teamsTable = <<>>
  /\ db = {}
  /\ matches = <<>>
  /\ editMode = FALSE
  /\ selectedCell = NoCell
  /\ originalPositions = <<>>
  /\ status = ""
  /\ gen = GenIdle
  /\ save = SaveIdle
  /\ readerMatches = <<>>
  /\ gestures = 0
  /\ fnCall \in PauseCalls

NextPauses == ApplyIsPaused

\* isPaused applied to every cell under two pauses of one kind
SpecPauses == InitPauses /\ [][NextPauses]_vars

(* =============================== claims =============================== *)
\* a generateMatches call has run its assignment loop
HasRun == gen.pc \in {"insert", "refresh"}

\* the matches `team` plays in a list of matches
PlayedIn(list, team) == Cardinality({k \in DOMAIN list : team \in TeamsOf(list[k])})

NoDoubleBooking(list) ==
  \A i \in DOMAIN list :
    /\ list[i].home_team_id # list[i].away_team_id
    /\ \A j \in DOMAIN list :
         (i # j /\ normHHMM(list[i].start_time) = normHHMM(list[j].start_time))
           => TeamsOf(list[i]) \cap TeamsOf(list[j]) = {}

NoSharedCell(list) ==
  \A i, j \in DOMAIN list :
    (i # j /\ normHHMM(list[i].start_time) = normHHMM(list[j].start_time))
      => list[i].field_idx # list[j].field_idx

\* C1: in the match list emitted by one generateMatches run, the team ids of
\* the matches at one start_time are pairwise distinct
C1_NoTeamTwiceAtATime == HasRun => NoDoubleBooking(gen.run.scheduled)

\* C1 witness: a run that placed two matches at the same start_time
C1_Witness ==
  /\ HasRun
  /\ \E i, j \in DOMAIN gen.run.scheduled :
       i # j /\ gen.run.scheduled[i].start_time = gen.run.scheduled[j].start_time

\* C2: when the pre-flight passes and every storage call succeeds, every
\* generated pairing is placed, each in exactly one match
C2_AllPairingsPlaced ==
  (gen.pc = "refresh" /\ status = "OK") =>
    /\ Len(gen.run.scheduled) = Len(gen.sequence)
    /\ \A k \in DOMAIN gen.sequence :
         Cardinality({i \in DOMAIN gen.run.scheduled :
                        TeamsOf(gen.run.scheduled[i]) = {gen.sequence[k].a, gen.sequence[k].b}}) = 1

\* the persisted content of a set or list of match rows, ids and seconds aside
Content(rows) ==
  {<<normHHMM(r.start_time), r.field_idx, r.home_team_id, r.away_team_id>> : r \in rows}

\* C3: while generateMatches replaces the schedule, a reader that fetches the
\* persisted matches gets exactly the previous set or exactly the complete new
\* set, never an empty or partly inserted one
C3_ReaderSeesOldOrNew ==
  [][(HasRun /\ readerMatches' # readerMatches)
       => Content(Range(readerMatches')) \in {Content(gen.prev), Content(Range(gen.run.scheduled))}]_vars

\* the pre-flight conditions, counted from the roster and the grid
PairingsNeeded(cfg, teams) ==
  IF showGroups(cfg)
    THEN LET size(g) == Len(groupTeams(cfg, teams, g))
             RECURSIVE Sum(_)
             Sum(g) == IF g = 0 THEN 0 ELSE (size(g) * (size(g) - 1)) \div 2 + Sum(g - 1)
         IN Sum(groupCount(cfg))
    ELSE (Len(teams) * (Len(teams) - 1)) \div 2

OpenCells(cfg) ==
  {<<k, f>> \in (DOMAIN timeline(cfg)) \X (1..cfg.num_fields) : ~isPaused(cfg, f, timeline(cfg)[k])}

PreflightFails(cfg, teams) ==
  \/ Len(teams) < Coalesce(cfg.min_teams, DefaultMinTeams)
  \/ Len(teams) > Coalesce(cfg.max_teams, DefaultMaxTeams)
  \/ PairingsNeeded(cfg, teams) > Cardinality(OpenCells(cfg))

\* C4: when the pre-flight check fails, generateMatches returns before it
\* issues any delete or insert: the persisted match set is unchanged
C4_PreflightFailureKeepsSchedule ==
  [][(gen.pc = "teams" /\ gen'.pc # "teams" /\ status' # "Erreur teams"
        /\ PreflightFails(t, teamsTable))
       => (gen'.pc = "idle" /\ db' = db)]_vars

\* C4 witness: a pre-flight failure reported while a schedule is persisted
C4_Witness ==
  /\ gen.pc = "idle"
  /\ status \in {"Pas assez d'équipes", "Trop d'équipes", "Planning impossible"}
  /\ db # {}
  /\ PreflightFails(t, teamsTable)

\* C5: after any sequence of generation runs, gestures, saves and cancels,
\* also with failed row updates, no two persisted matches share a cell and no
\* team is persisted twice at one start_time
C5_PersistedSetValid ==
  (gen.pc = "idle" /\ save.pc = "idle") =>
    /\ NoSharedCell(SortRows(db))
    /\ NoDoubleBooking(SortRows(db))

\* C6: a gesture whose result would put a team in two matches at one
\* start_time is rejected: gestures keep the in-memory grid free of
\* double-booking
C6_GestureRejectsDoubleBooking ==
  [][(editMode /\ editMode' /\ selectedCell # NoCell /\ selectedCell' = NoCell
        /\ NoDoubleBooking(matches))
       => NoDoubleBooking(matches')]_vars

\* C7: every emitted match sits on an open cell of the grid, and no two
\* emitted matches share a (start_time, field_idx)
C7_OnOpenCells ==
  HasRun =>
    /\ \A i \in DOMAIN gen.run.scheduled :
         LET m == gen.run.scheduled[i]
         IN /\ m.start_time \in Range(timeline(t))
            /\ m.field_idx \in 1..t.num_fields
            /\ ~isPaused(t, m.field_idx, m.start_time)
    /\ NoSharedCell(gen.run.scheduled)

\* C7 witness: matches were placed around a paused cell of the grid
C7_Witness ==
  /\ HasRun
  /\ Len(gen.run.scheduled) >= 2
  /\ \E k \in DOMAIN timeline(t) : \E f \in 1..t.num_fields :
       /\ isPaused(t, f, timeline(t)[k])
       /\ \E i \in DOMAIN gen.run.scheduled :
            timeToMin(gen.run.scheduled[i].start_time) > timeToMin(timeline(t)[k])

SpreadAtMostOne(list, teamIds) ==
  \A x, y \in teamIds : PlayedIn(list, x) - PlayedIn(list, y) <= 1

StrictOnly == \A k \in DOMAIN gen.run.relaxed : ~gen.run.relaxed[k]

\* C8: after a run whose placements were all made in the strict pass, every
\* team's played count exceeds the minimum by at most 1, over the roster and,
\* in pooled mode, within each pool
C8_EquityAfterStrictRun ==
  (HasRun /\ StrictOnly) =>
    /\ SpreadAtMostOne(gen.run.scheduled, Range(idsOf(gen.teams)))
    /\ showGroups(t) =>
         \A g \in 1..groupCount(t) :
           SpreadAtMostOne(gen.run.scheduled, Range(idsOf(groupTeams(t, gen.teams, g))))

\* C8 witness: a pooled, strict-only run that placed matches of two pools
C8_Witness ==
  /\ HasRun /\ StrictOnly /\ showGroups(t)
  /\ \E i, j \in DOMAIN gen.run.scheduled :
       \E k, l \in DOMAIN gen.sequence :
         /\ gen.sequence[k].groupIdx # gen.sequence[l].groupIdx
         /\ TeamsOf(gen.run.scheduled[i]) = {gen.sequence[k].a, gen.sequence[k].b}
         /\ TeamsOf(gen.run.scheduled[j]) = {gen.sequence[l].a, gen.sequence[l].b}

RRDone == fnCall.fn = "roundRobinPairs" /\ fnCall.done

\* C9: for n distinct team ids roundRobinPairs returns n(n-1)/2 pairings,
\* every unordered pair of distinct teams exactly once, no team paired with
\* itself and no pairing with the bye
C9_RoundRobinComplete ==
  RRDone =>
    LET ids == Range(fnCall.teamIds)
        n == Len(fnCall.teamIds)
        res == fnCall.result
        pairOf(i) == {res[i].a, res[i].b}
    IN /\ Len(res) = (n * (n - 1)) \div 2
       /\ \A i, j \in DOMAIN res : i # j => pairOf(i) # pairOf(j)
       /\ \A x, y \in ids :
            x # y => Cardinality({i \in DOMAIN res : pairOf(i) = {x, y}}) = 1
       /\ \A i \in DOMAIN res :
            /\ res[i].a # res[i].b
            /\ res[i].a # BYE
            /\ res[i].b # BYE

\* C9 witness: an odd roster, padded with the bye, got all its pairings
C9_Witness ==
  /\ RRDone
  /\ Len(fnCall.teamIds) % 2 = 1
  /\ Len(fnCall.teamIds) >= 3
  /\ fnCall.result # <<>>

PausedDone == fnCall.fn = "isPaused" /\ fnCall.done

\* the pause windows of a configuration that apply to a field, in minutes
WindowsOn(cfg, fieldIdx) ==
  {<<timeToMin(cfg.pauses[i].from), timeToMin(cfg.pauses[i].to)>> :
     i \in {k \in DOMAIN cfg.pauses :
              \/ cfg.pauses[k].type = "tournament"
              \/ /\ cfg.pauses[k].type = "tournament_except"
                 /\ fieldIdx \notin cfg.pauses[k].exceptFields}}
  \cup
  (IF fieldIdx \in DOMAIN cfg.field_pauses
     THEN {<<timeToMin(cfg.field_pauses[fieldIdx][i].from),
             timeToMin(cfg.field_pauses[fieldIdx][i].to)>> :
             i \in DOMAIN cfg.field_pauses[fieldIdx]}
     ELSE {})

\* C10: a cell starting at t with slot duration s is blocked by a pause window
\* [from, to) on its field if and only if t < to and from < t + s
C10_HalfOpenOverlap ==
  PausedDone =>
    LET start == timeToMin(fnCall.startHHMM)
        s == fnCall.t.match_duration_min + fnCall.t.rotation_duration_min
    IN fnCall.result <=>
         \E w \in WindowsOn(fnCall.t, fnCall.fieldIdx) : start < w[2] /\ w[1] < start + s

\* C10 witness: a window on the cell's field that ends exactly where the
\* cell starts, or starts exactly where it ends, leaves the cell open
C10_Witness ==
  /\ PausedDone
  /\ ~fnCall.result
  /\ \E w \in WindowsOn(fnCall.t, fnCall.fieldIdx) :
       \/ w[2] = timeToMin(fnCall.startHHMM)
       \/ w[1] = timeToMin(fnCall.startHHMM)
                   + fnCall.t.match_duration_min + fnCall.t.rotation_duration_min

CellOf(list, id) ==
  LET m == list[CHOOSE i \in DOMAIN list : list[i].id = id]
  IN cellKey(normHHMM(m.start_time), m.field_idx)

Pairings(list) ==
  {<<list[i].id, list[i].home_team_id, list[i].away_team_id>> : i \in DOMAIN list}

Exchanged(c1, c2, c) == IF c = c1 THEN c2 ELSE IF c = c2 THEN c1 ELSE c

C13_PausedClickChangesNothing ==
  [][(fnCall' # fnCall /\ fnCall'.fn = "onCellClick"
        /\ isPaused(t, fnCall'.cell[2], fnCall'.cell[1]))
       => matches' = matches]_vars

\* C13 witness: a paused cell that holds a match was clicked as the second
\* cell of a gesture
C13_Witness ==
  /\ editMode
  /\ fnCall.fn = "onCellClick"
  /\ fnCall.selected # NoCell
  /\ fnCall.selected # fnCall.cell
  /\ isPaused(t, fnCall.cell[2], fnCall.cell[1])
  /\ matchMapHas(matches, fnCall.cell)

\* the in-memory matches whose cell differs from the snapshot of enterEditMode
SnapshotDiff ==
  {[id |-> m.id, start_time |-> normHHMM(m.start_time), field_idx |-> m.field_idx] :
     m \in {x \in Range(matches) :
              /\ x.id \in DOMAIN originalPositions
              /\ \/ originalPositions[x.id].start # normHHMM(x.start_time)
                 \/ originalPositions[x.id].field # x.field_idx}}

\* a call of saveManualEdits returns or sends its first batch
SaveCalled ==
  /\ editMode
  /\ save.pc = "idle"
  /\ status' # status
  /\ status' \in {"Rien à enregistrer.", "Invalide: une équipe est présente 2 fois",
                  "Aucun changement.", "Enregistrement..."}

Issued(s) == IF s.pc = "update" THEN Range(s.updates) ELSE {}

\* a batch of row updates wrote only start_time and field_idx, only of rows
\* it had an update for
OnlyUpdatesWritten ==
  /\ {r.id : r \in db'} = {r.id : r \in db}
  /\ \A r \in db : \A q \in db' :
       r.id = q.id =>
         /\ q.home_team_id = r.home_team_id
         /\ q.away_team_id = r.away_team_id
         /\ \/ q = r
            \/ \E u \in Issued(save) :
                 /\ u.id = r.id
                 /\ normHHMM(q.start_time) = u.start_time
                 /\ q.field_idx = u.field_idx

C15_EditsStayInMemoryUntilSave ==
  [][/\ (editMode /\ save.pc = "idle" /\ gen.pc = "idle") => db' = db
     /\ (save.pc = "refresh" /\ save'.pc = "idle" /\ status = "Annulé.")
          => (db' = db /\ matches' = selectMatches)]_vars

\* C16: when a batch of saveManualEdits partly fails, the reported outcome
\* identifies which edits succeeded: no other set of failed updates that
\* leaves different rows written would have been reported the same way
C16_PartialFailureNamesSucceededEdits ==
  [][(save.pc = "update" /\ save'.pc = "idle" /\ db' # db)
       => \A failed \in SUBSET (DOMAIN saveBatch(save)) :
            updateRows(db, {saveBatch(save)[k] : k \in DOMAIN saveBatch(save) \ failed}) # db'
              => saveOutcome(save, failed) # status']_vars

\* C17: two generateMatches runs whose storage steps interleave behave as if
\* serialized: once both have inserted, the persisted set is the output of
\* a single run, no cell holds two matches, no pairing is persisted twice
C17_TwoRunsAsIfSerialized ==
  (gen.pc = "refresh" /\ status = "OK" /\ fnCall.fn = "generateMatches" /\ fnCall.pc = "done")
    => /\ Content(db) \in {Content(Range(gen.run.scheduled)), Content(Range(fnCall.run.scheduled))}
       /\ Cardinality(db) \in {Len(gen.run.scheduled), Len(fnCall.run.scheduled)}
       /\ NoSharedCell(SortRows(db))

\* C18: while the loaded row has invalid bounds (end_time <= start_time, or
\* min_teams > max_teams) no step of generateMatches changes the persisted
\* matches, whatever the roster and the format
InvalidBounds(cfg) ==
  \/ timeToMin(normHHMM(cfg.end_time)) <= timeToMin(normHHMM(cfg.start_time))
  \/ Coalesce(cfg.min_teams, DefaultMinTeams) > Coalesce(cfg.max_teams, DefaultMaxTeams)

StartTimes(cfg) ==
  LET start == timeToMin(cfg.start_time)
      slot == slotMinutes(cfg)
  IN {c \in start..timeToMin(cfg.end_time) :
        (c - start) % slot = 0 /\ c + slot <= timeToMin(cfg.end_time)}

BlockedCells(cfg) ==
  {cell \in StartTimes(cfg) \X (1..cfg.num_fields) : isPaused(cfg, cell[2], minToTime(cell[1]))}

C19_OpenCellCount ==
  LET cells == allSlots(t)
  IN /\ totalPlayableSlots(t)
          = Cardinality(StartTimes(t)) * t.num_fields - Cardinality(BlockedCells(t))
     /\ totalPlayableSlots(t) = Len(cells)
     /\ \A i, j \in DOMAIN cells :
          /\ i # j => <<cells[i].start, cells[i].fieldIdx>> # <<cells[j].start, cells[j].fieldIdx>>
          /\ i < j => \/ timeToMin(cells[i].start) < timeToMin(cells[j].start)
                      \/ /\ cells[i].start = cells[j].start
                         /\ cells[i].fieldIdx < cells[j].fieldIdx
          /\ cells[i].start = cells[j].start => cells[i].timeIndex = cells[j].timeIndex

\* a run went through a grid of several times and fields with blocked cells
C19_Witness ==
  /\ gen.pc \in {"insert", "refresh"}
  /\ Len(gen.run.scheduled) > 1
  /\ Cardinality(StartTimes(t)) > 1
  /\ t.num_fields > 1
  /\ BlockedCells(t) # {}
  /\ Len(allSlots(t)) > Cardinality(StartTimes(t))

\* C20: flat format, 4 teams, 09:00-11:00, slot 15, 1 field, no pauses: the
\* grid has 8 open cells, a completed generateMatches has persisted all 6
\* pairings, each team in exactly 3 matches, no two matches at one start_time
ScenarioRan ==
  /\ gen.pc = "refresh"
  /\ status = "OK"
  /\ Len(gen.teams) = 4

C20_FourTeamsOneField ==
  ScenarioRan =>
    LET ids == Range(idsOf(gen.teams))
    IN /\ Len(timeline(t)) = 8
       /\ totalPlayableSlots(t) = 8
       /\ Len(allSlots(t)) = 8
       /\ Cardinality(db) = 6
       /\ {TeamsOf(r) : r \in db} = {pair \in SUBSET ids : Cardinality(pair) = 2}
       /\ \A id \in ids : Cardinality({r \in db : id \in TeamsOf(r)}) = 3
       /\ \A r1, r2 \in db : r1.start_time = r2.start_time => r1 = r2

\* the run of the scenario completed and its rows are persisted
C20_Witness ==
  /\ ScenarioRan
  /\ t = ScenarioCfg
  /\ db # {}
  /\ \E k \in DOMAIN gen.run.relaxed : gen.run.relaxed[k]

PoolRosters ==
  UNION { { [i \in 1..n |-> [id |-> i, group_idx |-> g[i]]] : g \in [1..n -> 1..3] } :
          n \in 0..MaxPoolTeams }

\* pooled tournaments of 1 to 3 pools; a pool index above the count is clamped
PoolCalls ==
  { [fn |-> "buildSequence",
     t |-> [BaseCfg EXCEPT !.format = "groups_round_robin", !.group_count = gc],
     teams |-> r, done |-> FALSE] : gc \in 1..3, r \in PoolRosters }

InitPools ==
  /\ t = BaseCfg
  /\ teamsTable = <<>>
  /\ db = {}
  /\ matches = <<>>
  /\ editMode = FALSE
  /\ selectedCell = NoCell
  /\ originalPositions = <<>>
  /\ status = ""
  /\ gen = GenIdle
  /\ save = SaveIdle
  /\ readerMatches = <<>>
  /\ gestures = 0
  /\ fnCall \in PoolCalls

ApplyBuildSequence ==
  /\ fnCall.fn = "buildSequence"
  /\ ~fnCall.done
  /\ fnCall' = [fn |-> "buildSequence", t |-> fnCall.t, teams |-> fnCall.teams, done |-> TRUE,
                result |-> buildSequence(fnCall.t, fnCall.teams)]
  /\ UNCHANGED <<t, teamsTable, db, matches, editMode, selectedCell, originalPositions,
                 status, gen, save, readerMatches, gestures>>

NextPools == ApplyBuildSequence

\* the pairing generation of generateMatches in pooled mode, applied to every input
SpecPools == InitPools /\ [][NextPools]_vars

SequenceDone == fnCall.fn = "buildSequence" /\ fnCall.done

\* the round-robin pairings of pool g of the call, as <<a, b>>
PoolPairsOf(g) ==
  LET gTeams == groupTeams(fnCall.t, fnCall.teams, g)
      pairs == IF Len(gTeams) < 2 THEN <<>> ELSE roundRobinPairs(idsOf(gTeams))
  IN [k \in DOMAIN pairs |-> <<pairs[k].a, pairs[k].b>>]

\* the pairings of pool g among the first p entries of the result, in order
TakenOf(g, p) ==
  LET mine == SelectSeq(SubSeq(fnCall.result, 1, p), LAMBDA e : e.groupIdx = g)
  IN [k \in DOMAIN mine |-> <<mine[k].a, mine[k].b>>]

PoolOfId(id) ==
  teamGroup(fnCall.t, fnCall.teams[CHOOSE i \in DOMAIN fnCall.teams : fnCall.teams[i].id = id])

\* C25: the pooled sequence holds exactly the round-robin pairings of every
\* pool, each pool's pairings in their own order, every pairing inside one
\* pool; in every prefix two pools that both still have pending pairings have
\* given the same number, or the lower-indexed pool one more
C25_InterleavedByPools ==
  SequenceDone =>
    LET pools == 1..groupCount(fnCall.t)
        n == Len(fnCall.result)
    IN /\ \A k \in 1..n :
            /\ fnCall.result[k].groupIdx \in pools
            /\ PoolOfId(fnCall.result[k].a) = fnCall.result[k].groupIdx
            /\ PoolOfId(fnCall.result[k].b) = fnCall.result[k].groupIdx
       /\ \A g \in pools : TakenOf(g, n) = PoolPairsOf(g)
       /\ \A p \in 0..n : \A g1, g2 \in pools :
            (/\ g1 < g2
             /\ Len(TakenOf(g1, p)) < Len(PoolPairsOf(g1))
             /\ Len(TakenOf(g2, p)) < Len(PoolPairsOf(g2)))
              => Len(TakenOf(g1, p)) - Len(TakenOf(g2, p)) \in {0, 1}

\* three pools: one of a single team, two with several pairings of different number
C25_Witness ==
  /\ SequenceDone
  /\ groupCount(fnCall.t) = 3
  /\ \E g \in 1..3 : Len(groupTeams(fnCall.t, fnCall.teams, g)) = 1
  /\ \E g1, g2 \in 1..3 :
       /\ Len(PoolPairsOf(g1)) > 2
       /\ Len(PoolPairsOf(g2)) > 0
       /\ Len(PoolPairsOf(g1)) # Len(PoolPairsOf(g2))

(* ------------------ the assignment loop, cell by cell ------------------ *)
InLoop == fnCall.fn = "assignLoop"

\* one iteration was made: from fnCall.run on the cell LoopCell to fnCall'.run
LoopStepped == InLoop /\ fnCall'.fn = "assignLoop" /\ fnCall'.k = fnCall.k + 1

LoopCell == allSlots(t)[fnCall.k + 1]

Placed == Len(fnCall'.run.scheduled) = Len(fnCall.run.scheduled) + 1

Emitted == fnCall'.run.scheduled[Len(fnCall'.run.scheduled)]

\* the lookahead window of a run state, as (1-based) positions
WindowOf(run) == (run.ptr + 1)..Min2(Len(run.sequence), run.ptr + LookaheadWindow)

IsEmitted(cand) == cand.a = Emitted.home_team_id /\ cand.b = Emitted.away_team_id

\* time indexes since the last match of a team, from the emitted matches
LastIndexOf(run, team) ==
  LET mine == {k \in DOMAIN run.scheduled : team \in TeamsOf(run.scheduled[k])}
  IN IF mine = {} THEN NeverPlayed
     ELSE SetMax({timeIndexMap(t)[run.scheduled[k].start_time] : k \in mine})

RestOf(run, team, cell) == cell.timeIndex - LastIndexOf(run, team)

TightRest(run, cand, cell) == RestOf(run, cand.a, cell) < 2 \/ RestOf(run, cand.b, cell) < 2

BusyAt(run, cell) ==
  UNION {TeamsOf(run.scheduled[k]) :
           k \in {j \in DOMAIN run.scheduled : run.scheduled[j].start_time = cell.start}}

\* max count after the candidate's match minus min count now, over a set of teams
CapOk(run, teamIds, cand) ==
  LET counts == {PlayedIn(run.scheduled, id) : id \in teamIds}
      after == counts \cup {PlayedIn(run.scheduled, cand.a) + 1, PlayedIn(run.scheduled, cand.b) + 1}
  IN counts = {} \/ SetMax(after) - SetMin(counts) <= 1

PoolIdsOf(g) == {teamsTable[i].id : i \in {j \in DOMAIN teamsTable : teamGroup(t, teamsTable[j]) = g}}

RelaxedOk(run, cell, i) ==
  LET cand == run.sequence[i]
  IN /\ cand.a \notin BusyAt(run, cell) /\ cand.b \notin BusyAt(run, cell)
     /\ CapOk(run, Range(idsOf(teamsTable)), cand)
     /\ CapOk(run, PoolIdsOf(clampInt(cand.groupIdx, 1, groupCount(t))), cand)

StrictOk(run, cell, i) ==
  /\ RelaxedOk(run, cell, i)
  /\ RestOf(run, run.sequence[i].a, cell) >= 2
  /\ RestOf(run, run.sequence[i].b, cell) >= 2

\* C22: a match with a team that rested less than 2 time indexes is placed on
\* a cell only if no pairing of the lookahead window passes not-busy, rest >= 2
\* for both teams and both equity caps at that cell
C22_RelaxedOnlyAfterStrictFails ==
  [][(LoopStepped /\ Placed
        /\ TightRest(fnCall.run, [a |-> Emitted.home_team_id, b |-> Emitted.away_team_id], LoopCell))
      => \A i \in WindowOf(fnCall.run) : ~StrictOk(fnCall.run, LoopCell, i)]_vars

\* a large roster, the last placement made in the relaxed pass
C22_Witness ==
  /\ InLoop
  /\ Len(teamsTable) > MaxTeams
  /\ fnCall.run.relaxed # <<>>
  /\ fnCall.run.relaxed[Len(fnCall.run.relaxed)]
  /\ \E k \in DOMAIN fnCall.run.relaxed : ~fnCall.run.relaxed[k] /\ k > 2

\* the pass that decides a cell, and its surviving candidates
RelaxedPass(run, cell) == \A i \in WindowOf(run) : ~StrictOk(run, cell, i)

Survivors(run, cell) ==
  {i \in WindowOf(run) :
     IF RelaxedPass(run, cell) THEN RelaxedOk(run, cell, i) ELSE StrictOk(run, cell, i)}

FieldUse(run, f) == Cardinality({k \in DOMAIN run.scheduled : run.scheduled[k].field_idx = f})

\* 10 * (2*fieldUsage + 1.2*offset + 80 if relaxed and tight + 0.5*(played a + played b))
FullScore(run, cell, i) ==
  20 * FieldUse(run, cell.fieldIdx)
  + 12 * (i - (run.ptr + 1))
  + (IF RelaxedPass(run, cell) /\ TightRest(run, run.sequence[i], cell) THEN 800 ELSE 0)
  + 5 * (PlayedIn(run.scheduled, run.sequence[i].a) + PlayedIn(run.scheduled, run.sequence[i].b))

\* C23: the pairing placed on a cell is a surviving window candidate of the
\* deciding pass with minimum score, the earliest one among equal scores
C23_MinimumScoreEarliest ==
  [][(LoopStepped /\ Placed) =>
       \E i \in Survivors(fnCall.run, LoopCell) :
         /\ IsEmitted(fnCall.run.sequence[i])
         /\ \A j \in Survivors(fnCall.run, LoopCell) :
              \/ FullScore(fnCall.run, LoopCell, i) < FullScore(fnCall.run, LoopCell, j)
              \/ FullScore(fnCall.run, LoopCell, i) = FullScore(fnCall.run, LoopCell, j) /\ i <= j]_vars

\* a placement taken from behind the cursor among several survivors
C23_Witness ==
  /\ InLoop
  /\ fnCall.run.ptr > 2
  /\ fnCall.run.sequence # buildSequence(t, teamsTable)
  /\ fnCall.k > fnCall.run.ptr

CountIn(seq, x) == Cardinality({k \in DOMAIN seq : seq[k] = x})

IsPermutation(s1, s2) ==
  /\ Len(s1) = Len(s2)
  /\ \A x \in Range(s1) \cup Range(s2) : CountIn(s1, x) = CountIn(s2, x)

ConsumedPrefix(run) ==
  /\ IsPermutation(run.sequence, buildSequence(t, teamsTable))
  /\ run.ptr = Len(run.scheduled)
  /\ \A k \in 1..run.ptr :
       /\ run.scheduled[k].home_team_id = run.sequence[k].a
       /\ run.scheduled[k].away_team_id = run.sequence[k].b
  /\ \A k \in (run.ptr + 1)..Len(run.sequence) :
       \A m \in DOMAIN run.scheduled :
         TeamsOf(run.scheduled[m]) # {run.sequence[k].a, run.sequence[k].b}
  /\ \A m, n \in DOMAIN run.scheduled :
       m # n => TeamsOf(run.scheduled[m]) # TeamsOf(run.scheduled[n])

\* C24: after every iteration the sequence is a permutation of the generated
\* one, the entries before the cursor are the emitted pairings in order, the
\* entries from the cursor on are not emitted, no pairing is emitted twice,
\* the cursor is the number of emitted matches; a miss leaves cursor and
\* sequence as they were
C24_SequenceConsumedOnce ==
  [][LoopStepped =>
       /\ ConsumedPrefix(fnCall'.run)
       /\ ~Placed => /\ fnCall'.run.ptr = fnCall.run.ptr
                     /\ fnCall'.run.sequence = fnCall.run.sequence
                     /\ fnCall'.run.scheduled = fnCall.run.scheduled]_vars

\* entries were exchanged with the cursor and cells were missed
C24_Witness ==
  /\ InLoop
  /\ fnCall.run.ptr > 3
  /\ fnCall.k > fnCall.run.ptr + 1
  /\ \E k \in 1..fnCall.run.ptr : fnCall.run.sequence[k] # buildSequence(t, teamsTable)[k]
  /\ \E k \in (fnCall.run.ptr + 1)..Len(fnCall.run.sequence) :
       fnCall.run.sequence[k] # buildSequence(t, teamsTable)[k]

\* the consumption step of the specification: the chosen entry is taken out of
\* the pending entries, which keep their order
MoveToCursor(seq, i, j) ==
  [k \in DOMAIN seq |-> IF k < i \/ k > j THEN seq[k] ELSE IF k = i THEN seq[j] ELSE seq[k - 1]]

assignSlotRemoving(run, slot) ==
  LET next == assignSlot(t, run, slot)
      strictIdx == bestIndex(t, run, slot, TRUE)
      chosenIndex == IF strictIdx # 0 THEN strictIdx ELSE bestIndex(t, run, slot, FALSE)
  IN IF next.ptr = run.ptr THEN next
     ELSE [next EXCEPT !.sequence = MoveToCursor(run.sequence, run.ptr + 1, chosenIndex)]

RECURSIVE RunRemoving(_, _, _)
RunRemoving(run, slots, k) ==
  IF k > Len(slots) THEN run
  ELSE RunRemoving(assignSlotRemoving(run, slots[k]), slots, k + 1)

\* C26: after any number of cells the loop that exchanges the chosen entry
\* with the cursor entry has emitted the same matches as the loop that removes
\* the chosen entry from the pending ones
C26_SwapEqualsRemove ==
  InLoop =>
    fnCall.run.scheduled
      = RunRemoving(initRun(t, teamsTable, buildSequence(t, teamsTable)),
                    SubSeq(allSlots(t), 1, fnCall.k), 1).scheduled

SpreadOk(run, teamIds) ==
  \A x, y \in teamIds : PlayedIn(run.scheduled, x) - PlayedIn(run.scheduled, y) <= 1

\* C27: after every iteration no team has played more than 1 match above the
\* minimum over the whole roster, teams without any pairing included, and the
\* same within the teams of each pool
C27_SpreadAtMostOneAtEveryStep ==
  InLoop =>
    /\ SpreadOk(fnCall.run, Range(idsOf(teamsTable)))
    /\ \A g \in 1..groupCount(t) : SpreadOk(fnCall.run, PoolIdsOf(g))

\* a pooled run in which one team is alone in its pool, past its first placement
C27_Witness ==
  /\ InLoop
  /\ showGroups(t)
  /\ \E g \in 1..groupCount(t) : Cardinality(PoolIdsOf(g)) = 1
  /\ fnCall.run.scheduled # <<>>
  /\ fnCall.k > 2

ReducedScore(run, i) ==
  12 * (i - (run.ptr + 1))
  + 5 * (PlayedIn(run.scheduled, run.sequence[i].a) + PlayedIn(run.scheduled, run.sequence[i].b))

\* C28: the pairing placed on a cell is the earliest minimiser of
\* 1.2*offset + 0.5*(played a + played b) over the survivors of the deciding
\* pass, and the same pairing is placed from other field-usage counters
C28_FieldAndRelaxTermsNeutral ==
  [][(LoopStepped /\ Placed) =>
       /\ \E i \in Survivors(fnCall.run, LoopCell) :
            /\ IsEmitted(fnCall.run.sequence[i])
            /\ \A j \in Survivors(fnCall.run, LoopCell) :
                 \/ ReducedScore(fnCall.run, i) < ReducedScore(fnCall.run, j)
                 \/ ReducedScore(fnCall.run, i) = ReducedScore(fnCall.run, j) /\ i <= j
       /\ LET other == [fnCall.run EXCEPT !.fieldUsage = [f \in DOMAIN @ |-> 3 * f]]
          IN assignSlot(t, other, LoopCell).scheduled = fnCall'.run.scheduled]_vars

\* a relaxed-pass placement on a field already used, several candidates pending
C28_Witness ==
  /\ InLoop
  /\ fnCall.run.relaxed # <<>>
  /\ fnCall.run.relaxed[Len(fnCall.run.relaxed)]
  /\ Len(fnCall.run.sequence) - fnCall.run.ptr > 1
  /\ \E f \in DOMAIN fnCall.run.fieldUsage : fnCall.run.fieldUsage[f] > 1


\* the in-memory grid shows some team in two matches of one start time
GridHasTeamTwice ==
  \E i \in DOMAIN matches : \E j \in DOMAIN matches :
    /\ i # j
    /\ normHHMM(matches[i].start_time) = normHHMM(matches[j].start_time)
    /\ \E team \in {matches[i].home_team_id, matches[i].away_team_id} :
         team \in {matches[j].home_team_id, matches[j].away_team_id}

\* C29: saveManualEdits called while the in-memory grid holds a team twice
\* at one start time sends no storage update, keeps edit mode on and leaves
\* the in-memory grid and the snapshot as they were, whether or not a
\* position differs from the snapshot
C29_DuplicateTeamSaveIsRejected ==
  [][(SaveCalled /\ GridHasTeamTwice) =>
       /\ db' = db
       /\ save' = save
       /\ editMode'
       /\ matches' = matches
       /\ originalPositions' = originalPositions]_vars

\* a batch of saveManualEdits answers with at least one update in error
SaveFailed == save.pc = "update" /\ status' = "Erreur enregistrement"

\* saveManualEdits is called again after a failed attempt and passes the
\* validation: it sends the updates of the diff, or finds nothing to send
SaveRetried ==
  /\ SaveCalled
  /\ status = "Erreur enregistrement"
  /\ status' \in {"Enregistrement...", "Aucun changement."}

\* every match of the in-memory grid that `rows` holds is there at its
\* in-memory position
PersistedAsShown(rows) ==
  \A m \in Range(matches) : \A r \in rows :
    r.id = m.id => /\ normHHMM(r.start_time) = normHHMM(m.start_time)
                   /\ r.field_idx = m.field_idx

\* C30: a saveManualEdits attempt that fails on some row update keeps edit
\* mode, the in-memory grid and the snapshot and sends no later batch; the
\* next saveManualEdits sends every row that differs from the snapshot, and
\* once all of these updates are applied every match is persisted at its
\* in-memory position
C30_RetryAfterFailedSavePersistsGrid ==
  [][/\ SaveFailed =>
          /\ editMode' = editMode
          /\ matches' = matches
          /\ originalPositions' = originalPositions
          /\ save'.pc = "idle"
     /\ SaveRetried =>
          /\ Issued(save') = SnapshotDiff
          /\ PersistedAsShown(updateRows(db, Issued(save')))]_vars

====
